---- MODULE Spec2Model ----
(***************************************************************************)
(* PhysicsSystem (src/systems/physics-system.js): the control context of   *)
(* the physics worker protocol.  The control context owns the handle       *)
(* registry (bodyUuids, uuidToIndex, indexToUuid), the body entries and    *)
(* the helper queues; the worker (three-ammo's AmmoWorker) is the          *)
(* environment: it answers INIT with READY, ADD_BODY with BODY_READY, and  *)
(* passes the transfer buffer back and forth.  Both postMessage channels   *)
(* are FIFO queues (outbox: control -> worker, inbox: worker -> control).  *)
(***************************************************************************)
EXTENDS Integers, Sequences, FiniteSets, TLC

\* ---------------------------------------------------------------- bounds

\* addBody is called at most MaxBodies times (handles 0 .. MaxBodies-1).
MaxBodies == 2
\* removeBody is called at most MaxRemoves times.
MaxRemoves == 2
\* The worker's slots are 0 .. NumSlots-1 (BUFFER_CONFIG.MAX_BODIES).
NumSlots == 2
\* Body and shape helpers that may register.
MaxHelpers == 2
\* setDebug is called at most MaxSetDebug times.
MaxSetDebug == 3
\* The worker resends a BODY_READY at most MaxDuplicates times (SpecDup).
MaxDuplicates == 1

\* addBody is called at most MaxSyncBodies times in SpecSync.
MaxSyncBodies == 1
\* addShapes calls
MaxShapes == 2
\* removeShapes calls
MaxShapeRemoves == 1
\* removeBody and removeShapes calls while shapes are added
MaxHandleRemoves == 1

\* BUFFER_CONFIG.BODY_DATA_SIZE: words per record (0-15 matrix, 16 and 17
\* velocities, 18-25 collisions).
BODY_DATA_SIZE == 26

Handles == 0 .. (MaxBodies - 1)
Slots == 0 .. (NumSlots - 1)
HelperIds == 1 .. MaxHelpers
CollisionWords == 1 .. (BODY_DATA_SIZE - 18)

\* The value JavaScript yields for a missing property.
Undefined == -2
\* The "no collision" word of the buffer.
NoCollision == -1

\* ------------------------------------------------ JavaScript objects

\* obj[k] = v
Put(obj, k, v) == [x \in (DOMAIN obj) \cup {k} |-> IF x = k THEN v ELSE obj[x]]
\* delete obj[k]
Delete(obj, k) == [x \in (DOMAIN obj) \ {k} |-> obj[x]]
\* obj[k], undefined when the property is missing
Get(obj, k) == IF k \in DOMAIN obj THEN obj[k] ELSE Undefined
\* {}
EmptyObject == [x \in {} |-> Undefined]

Range(s) == {s[i] : i \in DOMAIN s}

\* Array.prototype.indexOf: the first index holding v, 0 when there is none
\* (indices are 1-based here, so 0 stands for JavaScript's -1).
IndexOf(s, v) ==
  IF v \in Range(s) THEN CHOOSE i \in DOMAIN s : s[i] = v /\ \A j \in 1 .. (i - 1) : s[j] # v
  ELSE 0

\* Array.prototype.splice(idx, 1)
Splice1(s, idx) == [i \in 1 .. (Len(s) - 1) |-> IF i < idx THEN s[i] ELSE s[i + 1]]

\* --------------------------------------------------------- transforms
\* A THREE.Matrix4 is abstracted to an invertible affine map x |-> a*x + t
\* over the integers modulo 5: t is the position, and the linear part a is
\* the product of an orientation q in {1, 4} (= +1, -1) and a scale s in
\* {1, 2}.  Every a in 1..4 has exactly one such decomposition.

Matrix(a, t) == [a |-> a, t |-> t]
IdentityMatrix == Matrix(1, 0)

\* Matrix4.multiplyMatrices(m1, m2): apply m2, then m1
MultiplyMatrices(m1, m2) == Matrix((m1.a * m2.a) % 5, (m1.a * m2.t + m1.t) % 5)

\* Matrix4.getInverse
GetInverse(m) ==
  LET ia == CHOOSE x \in 1 .. 4 : (x * m.a) % 5 = 1
  IN  Matrix(ia, (5 - ((ia * m.t) % 5)) % 5)

\* Matrix4.decompose(position, quaternion, scale)
Decompose(m) ==
  [position |-> m.t,
   quaternion |-> IF m.a \in {1, 2} THEN 1 ELSE 4,
   scale |-> IF m.a \in {1, 4} THEN 1 ELSE 2]

\* Matrix4.compose(position, quaternion, scale)
Compose(position, quaternion, scale) == Matrix((quaternion * scale) % 5, position)

\* object3D.updateMatrices(): the world matrix from the parent's world matrix
\* and the local position, quaternion and scale.
MatrixWorld(o) ==
  MultiplyMatrices(o.parentMatrixWorld, Compose(o.position, o.quaternion, o.scale))

Object3D(position, quaternion, scale, parentMatrixWorld) ==
  [position |-> position, quaternion |-> quaternion, scale |-> scale,
   parentMatrixWorld |-> parentMatrixWorld]

\* ------------------------------------------------------ transfer buffer
\* One record per slot: the matrix (words 0-15), the two velocity words and
\* the collision words (18 .. BODY_DATA_SIZE-1).

NoCollisions == [j \in CollisionWords |-> NoCollision]
BodyRecord(matrix, lin, ang, cols) ==
  [matrix |-> matrix, linearVelocity |-> lin, angularVelocity |-> ang, collisions |-> cols]
\* new ArrayBuffer(...): zero-filled
ZeroRecord == BodyRecord(Matrix(0, 0), 0, 0, [j \in CollisionWords |-> 0])
NewArrayBuffer == [s \in Slots |-> ZeroRecord]

VARIABLES
  \* ---- PhysicsSystem fields
  ready, bodyHelpers, shapeHelpers,
  bodyUuids, uuidToIndex, indexToUuid,
  object3Ds, bodyOptions, bodyLinearVelocities, bodyAngularVelocities,
  collisions,
  debugRequested, debugEnabled, debugMesh,
  nextBodyUuid,
  \* objectMatricesFloatArray.buffer.byteLength !== 0
  attached,
  \* ---- the environment
  \* window.SharedArrayBuffer exists
  hasSharedArrayBuffer,
  \* the contents of the one transfer buffer, wherever it currently is
  buffer,
  \* who holds the transfer buffer: "control", "worker", "toWorker", "toControl"
  bufferAt,
  outbox, inbox,
  \* the worker: INIT processed, uuid -> slot of its bodies
  workerUp, workerBodies,
  \* helpers: alive flag, those that called register*, the init2 calls so far
  bodyHelperAlive, shapeHelperAlive, registered, initLog,
  \* debug scene: the mesh is in the scene, SharedArrayBuffers allocated,
  \* the SET_DEBUG messages sent
  debugMeshInScene, debugAllocations, debugMessages,
  \* ---- history
  \* number of removeBody / setDebug calls, duplicates sent
  removeCalls, setDebugCalls, duplicatesSent,
  \* handles removeBody was called with
  removed,
  \* uuid -> index of each BODY_READY received
  bodyReadyReceived,
  \* what the tick that has just run did (NoTick after any other step)
  lastTick,
  \* ---- shapes: PhysicsSystem fields
  shapes, nextShapeUuid,
  \* ---- more history
  \* the values addBody and addShapes returned, in call order
  addBodyReturned, addShapesReturned,
  \* the init2 calls the READY handler made
  flushed,
  \* number of removeShapes calls
  removeShapesCalls

systemVars ==
  <<ready, bodyHelpers, shapeHelpers, bodyUuids, uuidToIndex, indexToUuid, object3Ds,
    bodyOptions, bodyLinearVelocities, bodyAngularVelocities, collisions,
    debugRequested, debugEnabled, debugMesh, nextBodyUuid, attached>>
envVars ==
  <<hasSharedArrayBuffer, buffer, bufferAt, outbox, inbox, workerUp, workerBodies,
    bodyHelperAlive, shapeHelperAlive, registered, initLog,
    debugMeshInScene, debugAllocations, debugMessages>>
historyVars ==
  <<removeCalls, setDebugCalls, duplicatesSent, removed, bodyReadyReceived, lastTick>>
shapeVars == <<shapes, nextShapeUuid>>
logVars == <<addBodyReturned, addShapesReturned, flushed, removeShapesCalls>>
vars == <<systemVars, envVars, historyVars, shapeVars, logVars>>

\* ------------------------------------------------------------ messages
Msg(type) == [type |-> type, uuid |-> Undefined, index |-> Undefined]
BodyMsg(type, uuid) == [type |-> type, uuid |-> uuid, index |-> Undefined]
BodyReadyMsg(uuid, index) == [type |-> "BODY_READY", uuid |-> uuid, index |-> index]
\* a shapes message holds its bodyUuid in field uuid, its shapesUuid in field index
ShapesMsg(type, bodyUuid, shapesUuid) ==
  [type |-> type, uuid |-> bodyUuid, index |-> shapesUuid]

NoTick ==
  [ran |-> FALSE, bufferWasAt |-> "", debugWasRequested |-> FALSE, processed |-> FALSE,
   threw |-> FALSE, sent |-> FALSE, uuids |-> <<>>]

\* The state the constructor leaves: the buffer was transferred with INIT.
Constructed ==
  /\ ready = FALSE
  /\ bodyHelpers = <<>>
  /\ shapeHelpers = <<>>
  /\ bodyUuids = <<>>
  /\ uuidToIndex = EmptyObject
  /\ indexToUuid = EmptyObject
  /\ object3Ds = EmptyObject
  /\ bodyOptions = EmptyObject
  /\ bodyLinearVelocities = EmptyObject
  /\ bodyAngularVelocities = EmptyObject
  /\ collisions = EmptyObject
  /\ debugRequested = FALSE
  /\ debugEnabled = FALSE
  /\ debugMesh = FALSE
  /\ nextBodyUuid = 0
  /\ attached = FALSE
  /\ shapes = EmptyObject
  /\ nextShapeUuid = 0
  /\ addBodyReturned = <<>>
  /\ addShapesReturned = <<>>
  /\ flushed = <<>>
  /\ removeShapesCalls = 0
  /\ buffer = NewArrayBuffer
  /\ bufferAt = "toWorker"
  /\ outbox = <<Msg("INIT")>>
  /\ inbox = <<>>
  /\ workerUp = FALSE
  /\ workerBodies = EmptyObject
  /\ bodyHelperAlive = [h \in HelperIds |-> TRUE]
  /\ shapeHelperAlive = [h \in HelperIds |-> TRUE]
  /\ registered = {}
  /\ initLog = <<>>
  /\ debugMeshInScene = FALSE
  /\ debugAllocations = 0
  /\ debugMessages = <<>>
  /\ removeCalls = 0
  /\ setDebugCalls = 0
  /\ duplicatesSent = 0
  /\ removed = {}
  /\ bodyReadyReceived = {}
  /\ lastTick = NoTick

\* ------------------------------------------------- body options
\* TYPE.DYNAMIC / KINEMATIC / STATIC; "" is an options bag without a type.
BodyTypes == {"", "dynamic", "kinematic", "static"}
Options(type) == [type |-> type]

\* line 162: this.bodyOptions[uuid].type ? this.bodyOptions[uuid].type : TYPE.DYNAMIC
TypeOf(options) == IF options.type = "" THEN "dynamic" ELSE options.type

\* Mutant: the pose is read for the externally driven kinds instead.
ReadsPoseWhenExternallyDriven(type) == type \in {"kinematic", "static"}

\* line 164: the bodies whose pose the tick reads from the buffer
ReadsPoseFromBuffer(type) == type = "dynamic"

\* ------------------------------------------------- addBody / removeBody

\* Mutant: the counter is not advanced.
NextBodyUuidReused == nextBodyUuid

\* line 222: return this.nextBodyUuid++
NextBodyUuidAfterAdd == nextBodyUuid + 1

\* addBody(object3D, options)
AddBody(object3D, options) ==
  /\ nextBodyUuid < MaxBodies
  /\ outbox' = Append(outbox, BodyMsg("ADD_BODY", nextBodyUuid))
  /\ object3Ds' = Put(object3Ds, nextBodyUuid, object3D)
  /\ bodyOptions' = Put(bodyOptions, nextBodyUuid, options)
  /\ collisions' = Put(collisions, nextBodyUuid, <<>>)
  /\ bodyLinearVelocities' = Put(bodyLinearVelocities, nextBodyUuid, 0)
  /\ bodyAngularVelocities' = Put(bodyAngularVelocities, nextBodyUuid, 0)
  /\ nextBodyUuid' = NextBodyUuidAfterAdd
  /\ UNCHANGED <<ready, bodyHelpers, shapeHelpers, bodyUuids, uuidToIndex, indexToUuid,
                 debugRequested, debugEnabled, debugMesh, attached>>
  /\ UNCHANGED <<hasSharedArrayBuffer, buffer, bufferAt, inbox, workerUp, workerBodies,
                 bodyHelperAlive, shapeHelperAlive, registered, initLog,
                 debugMeshInScene, debugAllocations, debugMessages>>
  /\ UNCHANGED <<removeCalls, setDebugCalls, duplicatesSent, removed, bodyReadyReceived>>
  /\ lastTick' = NoTick
  /\ UNCHANGED <<shapeVars, addShapesReturned, flushed, removeShapesCalls>>
  /\ addBodyReturned' = Append(addBodyReturned, nextBodyUuid)

\* line 231: delete this.indexToUuid[this.uuidToIndex[uuid]]
\* (the key is "undefined" when the handle has no slot: nothing is deleted)
IndexToUuidAfterRemove(uuid) ==
  IF uuid \in DOMAIN uuidToIndex THEN Delete(indexToUuid, uuidToIndex[uuid]) ELSE indexToUuid

\* lines 238-241: indexOf, then splice when found
BodyUuidsAfterRemove(uuid) ==
  IF IndexOf(bodyUuids, uuid) # 0 THEN Splice1(bodyUuids, IndexOf(bodyUuids, uuid))
  ELSE bodyUuids

\* removeBody(uuid)
RemoveBody(uuid) ==
  /\ removeCalls < MaxRemoves
  /\ indexToUuid' = IndexToUuidAfterRemove(uuid)
  /\ uuidToIndex' = Delete(uuidToIndex, uuid)
  /\ object3Ds' = Delete(object3Ds, uuid)
  /\ bodyOptions' = Delete(bodyOptions, uuid)
  /\ collisions' = Delete(collisions, uuid)
  /\ bodyLinearVelocities' = Delete(bodyLinearVelocities, uuid)
  /\ bodyAngularVelocities' = Delete(bodyAngularVelocities, uuid)
  /\ bodyUuids' = BodyUuidsAfterRemove(uuid)
  /\ outbox' = Append(outbox, BodyMsg("REMOVE_BODY", uuid))
  /\ removeCalls' = removeCalls + 1
  /\ removed' = removed \cup {uuid}
  /\ UNCHANGED <<ready, bodyHelpers, shapeHelpers, debugRequested, debugEnabled, debugMesh,
                 nextBodyUuid, attached>>
  /\ UNCHANGED <<hasSharedArrayBuffer, buffer, bufferAt, inbox, workerUp, workerBodies,
                 bodyHelperAlive, shapeHelperAlive, registered, initLog,
                 debugMeshInScene, debugAllocations, debugMessages>>
  /\ UNCHANGED <<setDebugCalls, duplicatesSent, bodyReadyReceived>>
  /\ lastTick' = NoTick
  /\ UNCHANGED <<shapeVars, logVars>>

\* ------------------------------------------------- onmessage

\* Mutant: the slot is taken from the order of arrival, not from the message.
UuidToIndexByArrival(uuid, index) == Put(uuidToIndex, uuid, Len(bodyUuids))

\* lines 76-78 of the BODY_READY branch
BodyUuidsAfterBodyReady(uuid) == Append(bodyUuids, uuid)
UuidToIndexAfterBodyReady(uuid, index) == Put(uuidToIndex, uuid, index)
IndexToUuidAfterBodyReady(uuid, index) == Put(indexToUuid, index, uuid)

\* onmessage, type BODY_READY
OnBodyReady ==
  /\ inbox # <<>>
  /\ Head(inbox).type = "BODY_READY"
  /\ LET uuid == Head(inbox).uuid
         index == Head(inbox).index
     IN  /\ bodyUuids' = BodyUuidsAfterBodyReady(uuid)
         /\ uuidToIndex' = UuidToIndexAfterBodyReady(uuid, index)
         /\ indexToUuid' = IndexToUuidAfterBodyReady(uuid, index)
         /\ bodyReadyReceived' = bodyReadyReceived \cup {<<uuid, index>>}
  /\ inbox' = Tail(inbox)
  /\ UNCHANGED <<ready, bodyHelpers, shapeHelpers, object3Ds, bodyOptions,
                 bodyLinearVelocities, bodyAngularVelocities, collisions,
                 debugRequested, debugEnabled, debugMesh, nextBodyUuid, attached>>
  /\ UNCHANGED <<hasSharedArrayBuffer, buffer, bufferAt, outbox, workerUp, workerBodies,
                 bodyHelperAlive, shapeHelperAlive, registered, initLog,
                 debugMeshInScene, debugAllocations, debugMessages>>
  /\ UNCHANGED <<removeCalls, setDebugCalls, duplicatesSent, removed>>
  /\ lastTick' = NoTick
  /\ UNCHANGED <<shapeVars, logVars>>

\* onmessage, type TRANSFER_DATA: the received array replaces the local one
OnTransferData ==
  /\ inbox # <<>>
  /\ Head(inbox).type = "TRANSFER_DATA"
  /\ attached' = TRUE
  /\ bufferAt' = "control"
  /\ inbox' = Tail(inbox)
  /\ UNCHANGED <<ready, bodyHelpers, shapeHelpers, bodyUuids, uuidToIndex, indexToUuid,
                 object3Ds, bodyOptions, bodyLinearVelocities, bodyAngularVelocities,
                 collisions, debugRequested, debugEnabled, debugMesh, nextBodyUuid>>
  /\ UNCHANGED <<hasSharedArrayBuffer, buffer, outbox, workerUp, workerBodies,
                 bodyHelperAlive, shapeHelperAlive, registered, initLog,
                 debugMeshInScene, debugAllocations, debugMessages>>
  /\ UNCHANGED <<removeCalls, setDebugCalls, duplicatesSent, removed, bodyReadyReceived>>
  /\ lastTick' = NoTick
  /\ UNCHANGED <<shapeVars, logVars>>

\* Mutant: the alive flag is not consulted.
AllOf(queue, alive) == queue

\* lines 65-70: the init2 calls of the READY branch, body helpers first
AliveOf(queue, alive) == SelectSeq(queue, LAMBDA h : alive[h])
Tag(kind, queue) == [i \in DOMAIN queue |-> <<kind, queue[i]>>]
\* Mutant: the shape helpers are flushed before the body helpers.
InitsShapesFirst ==
  Tag("shape", AliveOf(shapeHelpers, shapeHelperAlive))
    \o Tag("body", AliveOf(bodyHelpers, bodyHelperAlive))
InitsOnReady ==
  Tag("body", AliveOf(bodyHelpers, bodyHelperAlive))
    \o Tag("shape", AliveOf(shapeHelpers, shapeHelperAlive))

\* onmessage, type READY
OnReady ==
  /\ inbox # <<>>
  /\ Head(inbox).type = "READY"
  /\ ready' = TRUE
  /\ initLog' = initLog \o InitsOnReady
  /\ shapeHelpers' = <<>>
  /\ bodyHelpers' = <<>>
  /\ inbox' = Tail(inbox)
  /\ UNCHANGED <<bodyUuids, uuidToIndex, indexToUuid, object3Ds, bodyOptions,
                 bodyLinearVelocities, bodyAngularVelocities, collisions,
                 debugRequested, debugEnabled, debugMesh, nextBodyUuid, attached>>
  /\ UNCHANGED <<hasSharedArrayBuffer, buffer, bufferAt, outbox, workerUp, workerBodies,
                 bodyHelperAlive, shapeHelperAlive, registered,
                 debugMeshInScene, debugAllocations, debugMessages>>
  /\ UNCHANGED <<removeCalls, setDebugCalls, duplicatesSent, removed, bodyReadyReceived>>
  /\ lastTick' = NoTick
  /\ UNCHANGED <<shapeVars, addBodyReturned, addShapesReturned, removeShapesCalls>>
  /\ flushed' = InitsOnReady

\* onmessage, type SHAPES_READY (pushing onto a missing list throws)
OnShapesReady ==
  /\ inbox # <<>>
  /\ Head(inbox).type = "SHAPES_READY"
  /\ LET bodyUuid == Head(inbox).uuid
         shapesUuid == Head(inbox).index
     IN  shapes' = IF bodyUuid \in DOMAIN shapes
                     THEN Put(shapes, bodyUuid, Append(shapes[bodyUuid], shapesUuid))
                     ELSE shapes
  /\ inbox' = Tail(inbox)
  /\ UNCHANGED systemVars
  /\ UNCHANGED <<hasSharedArrayBuffer, buffer, bufferAt, outbox, workerUp, workerBodies,
                 bodyHelperAlive, shapeHelperAlive, registered, initLog,
                 debugMeshInScene, debugAllocations, debugMessages>>
  /\ UNCHANGED <<removeCalls, setDebugCalls, duplicatesSent, removed, bodyReadyReceived>>
  /\ lastTick' = NoTick
  /\ UNCHANGED <<nextShapeUuid, logVars>>

\* ------------------------------------------------- addShapes / removeShapes

\* line 255: return this.nextShapeUuid++
NextShapeUuidAfterAdd == nextShapeUuid + 1

\* addShapes(bodyUuid, mesh, options)
AddShapes(bodyUuid) ==
  /\ nextShapeUuid < MaxShapes
  /\ outbox' = Append(outbox, ShapesMsg("ADD_SHAPES", bodyUuid, nextShapeUuid))
  /\ shapes' = Put(shapes, bodyUuid,
                   Append(IF bodyUuid \in DOMAIN shapes THEN shapes[bodyUuid] ELSE <<>>,
                          nextShapeUuid))
  /\ nextShapeUuid' = NextShapeUuidAfterAdd
  /\ addShapesReturned' = Append(addShapesReturned, nextShapeUuid)
  /\ UNCHANGED systemVars
  /\ UNCHANGED <<hasSharedArrayBuffer, buffer, bufferAt, inbox, workerUp, workerBodies,
                 bodyHelperAlive, shapeHelperAlive, registered, initLog,
                 debugMeshInScene, debugAllocations, debugMessages>>
  /\ UNCHANGED <<removeCalls, setDebugCalls, duplicatesSent, removed, bodyReadyReceived>>
  /\ lastTick' = NoTick
  /\ UNCHANGED <<addBodyReturned, flushed, removeShapesCalls>>

\* The property name "bodyUuid" of line 260; the properties of shapes are
\* named by handles, which are 0 and above.
BodyUuidProperty == -3

\* lines 260-265: the list is looked up under the name "bodyUuid"
ShapesAfterRemove(bodyUuid, shapesUuid) ==
  IF Get(shapes, BodyUuidProperty) # Undefined /\ bodyUuid \in DOMAIN shapes
    THEN LET idx == IndexOf(shapes[bodyUuid], shapesUuid)
         IN  IF idx # 0 THEN Put(shapes, bodyUuid, Splice1(shapes[bodyUuid], idx))
             ELSE shapes
    ELSE shapes

\* removeShapes(bodyUuid, shapesUuid)
RemoveShapes(bodyUuid, shapesUuid) ==
  /\ removeShapesCalls < MaxShapeRemoves
  /\ outbox' = Append(outbox, ShapesMsg("REMOVE_SHAPES", bodyUuid, shapesUuid))
  /\ shapes' = ShapesAfterRemove(bodyUuid, shapesUuid)
  /\ removeShapesCalls' = removeShapesCalls + 1
  /\ UNCHANGED systemVars
  /\ UNCHANGED <<hasSharedArrayBuffer, buffer, bufferAt, inbox, workerUp, workerBodies,
                 bodyHelperAlive, shapeHelperAlive, registered, initLog,
                 debugMeshInScene, debugAllocations, debugMessages>>
  /\ UNCHANGED <<removeCalls, setDebugCalls, duplicatesSent, removed, bodyReadyReceived>>
  /\ lastTick' = NoTick
  /\ UNCHANGED <<nextShapeUuid, addBodyReturned, addShapesReturned, flushed>>

\* ------------------------------------------------- helpers

\* lines 277 / 285: a helper is queued unless the system is ready
QueuesHelper == ~ready

\* registerBodyHelper(bodyHelper); a helper registers itself once, when it
\* is created
RegisterBodyHelper(h) ==
  /\ <<"body", h>> \notin registered
  /\ bodyHelperAlive[h]
  /\ registered' = registered \cup {<<"body", h>>}
  /\ IF QueuesHelper
       THEN bodyHelpers' = Append(bodyHelpers, h) /\ initLog' = initLog
       ELSE initLog' = Append(initLog, <<"body", h>>) /\ bodyHelpers' = bodyHelpers
  /\ UNCHANGED <<ready, shapeHelpers, bodyUuids, uuidToIndex, indexToUuid, object3Ds,
                 bodyOptions, bodyLinearVelocities, bodyAngularVelocities, collisions,
                 debugRequested, debugEnabled, debugMesh, nextBodyUuid, attached>>
  /\ UNCHANGED <<hasSharedArrayBuffer, buffer, bufferAt, outbox, inbox, workerUp,
                 workerBodies, bodyHelperAlive, shapeHelperAlive,
                 debugMeshInScene, debugAllocations, debugMessages>>
  /\ UNCHANGED <<removeCalls, setDebugCalls, duplicatesSent, removed, bodyReadyReceived>>
  /\ lastTick' = NoTick
  /\ UNCHANGED <<shapeVars, logVars>>

\* registerShapeHelper(shapeHelper)
RegisterShapeHelper(h) ==
  /\ <<"shape", h>> \notin registered
  /\ shapeHelperAlive[h]
  /\ registered' = registered \cup {<<"shape", h>>}
  /\ IF QueuesHelper
       THEN shapeHelpers' = Append(shapeHelpers, h) /\ initLog' = initLog
       ELSE initLog' = Append(initLog, <<"shape", h>>) /\ shapeHelpers' = shapeHelpers
  /\ UNCHANGED <<ready, bodyHelpers, bodyUuids, uuidToIndex, indexToUuid, object3Ds,
                 bodyOptions, bodyLinearVelocities, bodyAngularVelocities, collisions,
                 debugRequested, debugEnabled, debugMesh, nextBodyUuid, attached>>
  /\ UNCHANGED <<hasSharedArrayBuffer, buffer, bufferAt, outbox, inbox, workerUp,
                 workerBodies, bodyHelperAlive, shapeHelperAlive,
                 debugMeshInScene, debugAllocations, debugMessages>>
  /\ UNCHANGED <<removeCalls, setDebugCalls, duplicatesSent, removed, bodyReadyReceived>>
  /\ lastTick' = NoTick
  /\ UNCHANGED <<shapeVars, logVars>>

\* The helper's component is removed while it waits in the queue: its alive
\* flag (read at lines 66 and 69) becomes false.
BodyHelperDies(h) ==
  /\ h \in Range(bodyHelpers)
  /\ bodyHelperAlive[h]
  /\ bodyHelperAlive' = [bodyHelperAlive EXCEPT ![h] = FALSE]
  /\ UNCHANGED systemVars
  /\ UNCHANGED <<hasSharedArrayBuffer, buffer, bufferAt, outbox, inbox, workerUp,
                 workerBodies, shapeHelperAlive, registered, initLog,
                 debugMeshInScene, debugAllocations, debugMessages>>
  /\ UNCHANGED <<removeCalls, setDebugCalls, duplicatesSent, removed, bodyReadyReceived>>
  /\ lastTick' = NoTick
  /\ UNCHANGED <<shapeVars, logVars>>

ShapeHelperDies(h) ==
  /\ h \in Range(shapeHelpers)
  /\ shapeHelperAlive[h]
  /\ shapeHelperAlive' = [shapeHelperAlive EXCEPT ![h] = FALSE]
  /\ UNCHANGED systemVars
  /\ UNCHANGED <<hasSharedArrayBuffer, buffer, bufferAt, outbox, inbox, workerUp,
                 workerBodies, bodyHelperAlive, registered, initLog,
                 debugMeshInScene, debugAllocations, debugMessages>>
  /\ UNCHANGED <<removeCalls, setDebugCalls, duplicatesSent, removed, bodyReadyReceived>>
  /\ lastTick' = NoTick
  /\ UNCHANGED <<shapeVars, logVars>>

\* ------------------------------------------------- debug

\* setDebug(debug)
SetDebug(debug) ==
  /\ setDebugCalls < MaxSetDebug
  /\ debugRequested' = debug
  /\ setDebugCalls' = setDebugCalls + 1
  /\ UNCHANGED <<ready, bodyHelpers, shapeHelpers, bodyUuids, uuidToIndex, indexToUuid,
                 object3Ds, bodyOptions, bodyLinearVelocities, bodyAngularVelocities,
                 collisions, debugEnabled, debugMesh, nextBodyUuid, attached>>
  /\ UNCHANGED envVars
  /\ UNCHANGED <<removeCalls, duplicatesSent, removed, bodyReadyReceived>>
  /\ lastTick' = NoTick
  /\ UNCHANGED <<shapeVars, logVars>>

\* The debug fields, as one record.
DebugState ==
  [requested |-> debugRequested, enabled |-> debugEnabled, mesh |-> debugMesh,
   inScene |-> debugMeshInScene, allocations |-> debugAllocations,
   messages |-> debugMessages]

\* Mutant: the SharedArrayBuffer check is missing.
DebugNeverUnavailable == FALSE

\* line 96: if (!window.SharedArrayBuffer)
DebugUnavailable == ~hasSharedArrayBuffer

\* enableDebug()
EnableDebug(d) ==
  IF DebugUnavailable THEN [d EXCEPT !.requested = FALSE]
  ELSE [enabled |-> TRUE,
        requested |-> d.requested,
        mesh |-> TRUE,
        allocations |-> IF d.mesh THEN d.allocations ELSE d.allocations + 1,
        inScene |-> TRUE,
        messages |->
          IF d.mesh /\ d.inScene THEN d.messages
          ELSE Append(d.messages,
                      [enable |-> TRUE,
                       buffer |-> IF d.mesh THEN d.allocations ELSE d.allocations + 1])]

\* disableDebug()
DisableDebug(d) ==
  IF d.mesh
    THEN [d EXCEPT !.enabled = FALSE, !.inScene = FALSE,
                   !.messages = Append(d.messages, [enable |-> FALSE, buffer |-> 0])]
    ELSE [d EXCEPT !.enabled = FALSE]

\* Mutant: the tick does not compare debugRequested with debugEnabled.
TickDebugUncompared(d) ==
  IF d.requested THEN EnableDebug(d) ELSE DisableDebug(d)

\* lines 142-148
TickDebug(d) ==
  IF d.requested # d.enabled
    THEN IF d.requested THEN EnableDebug(d) ELSE DisableDebug(d)
    ELSE d

\* ------------------------------------------------- tick

\* Mutant: the byteLength check is missing.
BufferAssumedLocal == TRUE

\* line 158: this.objectMatricesFloatArray.buffer.byteLength !== 0
BufferIsLocal == attached

\* lines 165-168: the local pose read from the slot's matrix through the
\* inverse of the parent's world matrix; decompose's scale is dropped.
PoseFromBuffer(o, matrix) ==
  LET d == Decompose(MultiplyMatrices(GetInverse(o.parentMatrixWorld), matrix))
  IN  [o EXCEPT !.position = d.position, !.quaternion = d.quaternion]

\* Mutant: the scan of the collision words stops at the first -1.
CollisionsUntilSentinel(record) ==
  LET stops == {j \in CollisionWords : record.collisions[j] = NoCollision}
      last == IF stops = {} THEN Len(record.collisions)
              ELSE (CHOOSE j \in stops : \A k \in stops : j <= k) - 1
  IN  [k \in 1 .. last |-> Get(indexToUuid, record.collisions[k])]

\* lines 187-192: the handles of the collision words that are not -1
CollisionsOf(record) ==
  LET occupied == SelectSeq(record.collisions, LAMBDA c : c # NoCollision)
  IN  [k \in 1 .. Len(occupied) |-> Get(indexToUuid, occupied[k])]

\* Mutant: the write also clears the velocity word that follows the transform.
SetMatrixAndClear(array, index, matrix) ==
  [array EXCEPT ![index].matrix = matrix, ![index].linearVelocity = 0]

\* line 172: objectMatricesFloatArray.set(matrixWorld.elements, index * BODY_DATA_SIZE)
SetMatrix(array, index, matrix) == [array EXCEPT ![index].matrix = matrix]

\* What the body loop works on.
TickStart ==
  [buffer |-> buffer, object3Ds |-> object3Ds, linear |-> bodyLinearVelocities,
   angular |-> bodyAngularVelocities, collisions |-> collisions,
   threw |-> FALSE, uuids |-> <<>>]

\* lines 160-192: one iteration of the body loop.  Reading .type of a
\* missing bodyOptions entry, or .parent / .updateMatrices of a missing
\* object3D, throws a TypeError, which ends the tick.
TickBody(st, uuid) ==
  IF uuid \notin DOMAIN bodyOptions \/ uuid \notin DOMAIN st.object3Ds
       \/ uuid \notin DOMAIN st.collisions
    THEN [st EXCEPT !.threw = TRUE]
    ELSE
      LET index == uuidToIndex[uuid]
          type == TypeOf(bodyOptions[uuid])
          object3D == IF ReadsPoseFromBuffer(type)
                        THEN PoseFromBuffer(st.object3Ds[uuid], st.buffer[index].matrix)
                        ELSE st.object3Ds[uuid]
          written == SetMatrix(st.buffer, index, MatrixWorld(object3D))
      IN  [buffer |-> written,
           object3Ds |-> Put(st.object3Ds, uuid, object3D),
           linear |-> IF uuid \in DOMAIN st.linear
                        THEN Put(st.linear, uuid, written[index].linearVelocity)
                        ELSE st.linear,
           angular |-> IF uuid \in DOMAIN st.angular
                         THEN Put(st.angular, uuid, written[index].angularVelocity)
                         ELSE st.angular,
           collisions |-> Put(st.collisions, uuid, CollisionsOf(written[index])),
           threw |-> FALSE,
           uuids |-> Append(st.uuids, uuid)]

\* line 159: for (let i = 0; i < this.bodyUuids.length; i++)
RECURSIVE TickLoop(_, _)
TickLoop(st, i) ==
  IF i > Len(bodyUuids) \/ st.threw THEN st
  ELSE TickLoop(TickBody(st, bodyUuids[i]), i + 1)

\* tick()
Tick ==
  /\ ready
  /\ LET d == TickDebug(DebugState)
         st == IF BufferIsLocal THEN TickLoop(TickStart, 1) ELSE TickStart
         sends == BufferIsLocal /\ ~st.threw
     IN  /\ debugRequested' = d.requested
         /\ debugEnabled' = d.enabled
         /\ debugMesh' = d.mesh
         /\ debugMeshInScene' = d.inScene
         /\ debugAllocations' = d.allocations
         /\ debugMessages' = d.messages
         /\ buffer' = st.buffer
         /\ object3Ds' = st.object3Ds
         /\ bodyLinearVelocities' = st.linear
         /\ bodyAngularVelocities' = st.angular
         /\ collisions' = st.collisions
         /\ outbox' = IF sends THEN Append(outbox, Msg("TRANSFER_DATA")) ELSE outbox
         /\ attached' = IF sends THEN FALSE ELSE attached
         /\ bufferAt' = IF sends THEN "toWorker" ELSE bufferAt
         /\ lastTick' = [ran |-> TRUE, bufferWasAt |-> bufferAt,
                         debugWasRequested |-> debugRequested,
                         processed |-> BufferIsLocal, threw |-> st.threw,
                         sent |-> sends, uuids |-> st.uuids]
  /\ UNCHANGED <<ready, bodyHelpers, shapeHelpers, bodyUuids, uuidToIndex, indexToUuid,
                 bodyOptions, nextBodyUuid>>
  /\ UNCHANGED <<hasSharedArrayBuffer, inbox, workerUp, workerBodies,
                 bodyHelperAlive, shapeHelperAlive, registered, initLog>>
  /\ UNCHANGED <<removeCalls, setDebugCalls, duplicatesSent, removed, bodyReadyReceived>>
  /\ UNCHANGED <<shapeVars, logVars>>

\* ------------------------------------------------- the worker

FreeSlots == Slots \ {workerBodies[u] : u \in DOMAIN workerBodies}

\* INIT: the worker takes the buffer and answers READY.
WorkerInit ==
  /\ outbox # <<>>
  /\ Head(outbox).type = "INIT"
  /\ outbox' = Tail(outbox)
  /\ workerUp' = TRUE
  /\ bufferAt' = "worker"
  /\ inbox' = Append(inbox, Msg("READY"))
  /\ UNCHANGED systemVars
  /\ UNCHANGED <<hasSharedArrayBuffer, buffer, workerBodies,
                 bodyHelperAlive, shapeHelperAlive, registered, initLog,
                 debugMeshInScene, debugAllocations, debugMessages>>
  /\ UNCHANGED <<removeCalls, setDebugCalls, duplicatesSent, removed, bodyReadyReceived>>
  /\ lastTick' = NoTick
  /\ UNCHANGED <<shapeVars, logVars>>

\* ADD_BODY: the body gets a free slot, announced by BODY_READY.
WorkerAddBody(slot) ==
  /\ outbox # <<>>
  /\ Head(outbox).type = "ADD_BODY"
  /\ slot \in FreeSlots
  /\ outbox' = Tail(outbox)
  /\ workerBodies' = Put(workerBodies, Head(outbox).uuid, slot)
  /\ inbox' = Append(inbox, BodyReadyMsg(Head(outbox).uuid, slot))
  /\ UNCHANGED systemVars
  /\ UNCHANGED <<hasSharedArrayBuffer, buffer, bufferAt, workerUp,
                 bodyHelperAlive, shapeHelperAlive, registered, initLog,
                 debugMeshInScene, debugAllocations, debugMessages>>
  /\ UNCHANGED <<removeCalls, setDebugCalls, duplicatesSent, removed, bodyReadyReceived>>
  /\ lastTick' = NoTick
  /\ UNCHANGED <<shapeVars, logVars>>

\* REMOVE_BODY: the body's slot becomes free again.
WorkerRemoveBody ==
  /\ outbox # <<>>
  /\ Head(outbox).type = "REMOVE_BODY"
  /\ outbox' = Tail(outbox)
  /\ workerBodies' = Delete(workerBodies, Head(outbox).uuid)
  /\ UNCHANGED systemVars
  /\ UNCHANGED <<hasSharedArrayBuffer, buffer, bufferAt, inbox, workerUp,
                 bodyHelperAlive, shapeHelperAlive, registered, initLog,
                 debugMeshInScene, debugAllocations, debugMessages>>
  /\ UNCHANGED <<removeCalls, setDebugCalls, duplicatesSent, removed, bodyReadyReceived>>
  /\ lastTick' = NoTick
  /\ UNCHANGED <<shapeVars, logVars>>

\* TRANSFER_DATA from the control context: the worker holds the buffer again.
WorkerTakesBuffer ==
  /\ outbox # <<>>
  /\ Head(outbox).type = "TRANSFER_DATA"
  /\ outbox' = Tail(outbox)
  /\ bufferAt' = "worker"
  /\ UNCHANGED systemVars
  /\ UNCHANGED <<hasSharedArrayBuffer, buffer, inbox, workerUp, workerBodies,
                 bodyHelperAlive, shapeHelperAlive, registered, initLog,
                 debugMeshInScene, debugAllocations, debugMessages>>
  /\ UNCHANGED <<removeCalls, setDebugCalls, duplicatesSent, removed, bodyReadyReceived>>
  /\ lastTick' = NoTick
  /\ UNCHANGED <<shapeVars, logVars>>

\* A simulation step: the worker writes the records of its bodies' slots
\* and sends the buffer with TRANSFER_DATA.
WorkerStep(written) ==
  /\ workerUp
  /\ bufferAt = "worker"
  /\ buffer' = written
  /\ bufferAt' = "toControl"
  /\ inbox' = Append(inbox, Msg("TRANSFER_DATA"))
  /\ UNCHANGED systemVars
  /\ UNCHANGED <<hasSharedArrayBuffer, outbox, workerUp, workerBodies,
                 bodyHelperAlive, shapeHelperAlive, registered, initLog,
                 debugMeshInScene, debugAllocations, debugMessages>>
  /\ UNCHANGED <<removeCalls, setDebugCalls, duplicatesSent, removed, bodyReadyReceived>>
  /\ lastTick' = NoTick
  /\ UNCHANGED <<shapeVars, logVars>>

\* A worker that breaks the protocol: BODY_READY is sent again for a body it
\* has already announced.
WorkerRepeatsBodyReady(uuid) ==
  /\ duplicatesSent < MaxDuplicates
  /\ uuid \in DOMAIN workerBodies
  /\ \E index \in Slots : <<uuid, index>> \in bodyReadyReceived
  /\ inbox' = Append(inbox, BodyReadyMsg(uuid, workerBodies[uuid]))
  /\ duplicatesSent' = duplicatesSent + 1
  /\ UNCHANGED systemVars
  /\ UNCHANGED <<hasSharedArrayBuffer, buffer, bufferAt, outbox, workerUp, workerBodies,
                 bodyHelperAlive, shapeHelperAlive, registered, initLog,
                 debugMeshInScene, debugAllocations, debugMessages>>
  /\ UNCHANGED <<removeCalls, setDebugCalls, removed, bodyReadyReceived>>
  /\ lastTick' = NoTick
  /\ UNCHANGED <<shapeVars, logVars>>

\* ADD_SHAPES: the worker answers with one SHAPES_READY.
WorkerAddShapes ==
  /\ outbox # <<>>
  /\ Head(outbox).type = "ADD_SHAPES"
  /\ outbox' = Tail(outbox)
  /\ inbox' = Append(inbox, ShapesMsg("SHAPES_READY", Head(outbox).uuid, Head(outbox).index))
  /\ UNCHANGED systemVars
  /\ UNCHANGED <<hasSharedArrayBuffer, buffer, bufferAt, workerUp, workerBodies,
                 bodyHelperAlive, shapeHelperAlive, registered, initLog,
                 debugMeshInScene, debugAllocations, debugMessages>>
  /\ UNCHANGED <<removeCalls, setDebugCalls, duplicatesSent, removed, bodyReadyReceived>>
  /\ lastTick' = NoTick
  /\ UNCHANGED <<shapeVars, logVars>>

\* REMOVE_SHAPES: no answer.
WorkerRemoveShapes ==
  /\ outbox # <<>>
  /\ Head(outbox).type = "REMOVE_SHAPES"
  /\ outbox' = Tail(outbox)
  /\ UNCHANGED systemVars
  /\ UNCHANGED <<hasSharedArrayBuffer, buffer, bufferAt, inbox, workerUp, workerBodies,
                 bodyHelperAlive, shapeHelperAlive, registered, initLog,
                 debugMeshInScene, debugAllocations, debugMessages>>
  /\ UNCHANGED <<removeCalls, setDebugCalls, duplicatesSent, removed, bodyReadyReceived>>
  /\ lastTick' = NoTick
  /\ UNCHANGED <<shapeVars, logVars>>

\* ------------------------------------------------- specifications

\* The scene objects and options addBody is called with.
DefaultObject == Object3D(0, 1, 1, IdentityMatrix)

\* The records a simulation step leaves in the slots of the worker's bodies:
\* an identity pose, no velocity, no collision.
RestingRecord == BodyRecord(IdentityMatrix, 0, 0, NoCollisions)
SteppedAtRest ==
  [s \in Slots |->
     IF s \in {workerBodies[u] : u \in DOMAIN workerBodies} THEN RestingRecord
     ELSE buffer[s]]

\* A browser with SharedArrayBuffer.
Init == Constructed /\ hasSharedArrayBuffer = TRUE

Next ==
  \/ \E type \in {""} : AddBody(DefaultObject, Options(type))
  \/ \E uuid \in 0 .. (nextBodyUuid - 1) : RemoveBody(uuid)
  \/ OnReady
  \/ OnBodyReady
  \/ OnTransferData
  \/ Tick
  \/ WorkerInit
  \/ \E slot \in Slots : WorkerAddBody(slot)
  \/ WorkerRemoveBody
  \/ WorkerTakesBuffer
  \/ WorkerStep(SteppedAtRest)

Spec == Init /\ [][Next]_vars

\* The same system with a worker that may repeat a BODY_READY.
NextDup ==
  \/ Next
  \/ \E uuid \in Handles : WorkerRepeatsBodyReady(uuid)

SpecDup == Init /\ [][NextDup]_vars

\* Helper registration around READY.
NextHelpers ==
  \/ \E h \in HelperIds : RegisterBodyHelper(h)
  \/ \E h \in HelperIds : RegisterShapeHelper(h)
  \/ \E h \in HelperIds : BodyHelperDies(h)
  \/ \E h \in HelperIds : ShapeHelperDies(h)
  \/ WorkerInit
  \/ OnReady

SpecHelpers == Init /\ [][NextHelpers]_vars

\* Debug rendering, in a browser with or without SharedArrayBuffer.
InitDebug == Constructed /\ hasSharedArrayBuffer \in BOOLEAN

NextDebug ==
  \/ \E debug \in BOOLEAN : SetDebug(debug)
  \/ AddBody(DefaultObject, Options(""))
  \/ OnReady
  \/ OnBodyReady
  \/ OnTransferData
  \/ Tick
  \/ WorkerInit
  \/ \E slot \in Slots : WorkerAddBody(slot)
  \/ WorkerTakesBuffer
  \/ WorkerStep(SteppedAtRest)

SpecDebug == InitDebug /\ [][NextDebug]_vars

\* Pose synchronisation: bodies of every kind, under an identity and under a
\* moved, scaled parent, with the worker writing simulated records.
ChildObject == Object3D(1, 4, 2, Matrix(2, 3))
SceneObjects == {DefaultObject, ChildObject}
SimulatedPoses == {Matrix(1, 2), Matrix(4, 1), Matrix(2, 3)}
SteppedBuffers ==
  {SteppedAtRest}
    \cup {[SteppedAtRest EXCEPT ![workerBodies[u]] = BodyRecord(m, 1, 2, NoCollisions)] :
            u \in DOMAIN workerBodies, m \in SimulatedPoses}

NextSync ==
  \/ \E o \in SceneObjects, type \in BodyTypes :
       nextBodyUuid < MaxSyncBodies /\ AddBody(o, Options(type))
  \/ OnReady
  \/ OnBodyReady
  \/ OnTransferData
  \/ Tick
  \/ WorkerInit
  \/ \E slot \in Slots : WorkerAddBody(slot)
  \/ WorkerTakesBuffer
  \/ \E written \in SteppedBuffers : WorkerStep(written)

SpecSync == Init /\ [][NextSync]_vars

\* Collision fields a simulation step may leave in a slot: the listed words
\* first, -1 in the remaining words.
Field(words) ==
  [j \in CollisionWords |-> IF j <= Len(words) THEN words[j] ELSE NoCollision]
FullField(t) == [j \in CollisionWords |-> t]
CollisionFields ==
  {NoCollisions}
    \cup {Field(<<t>>) : t \in Slots}
    \cup {Field(<<NoCollision, t>>) : t \in Slots}
    \cup {FullField(t) : t \in Slots}
SteppedColliding ==
  {SteppedAtRest}
    \cup {[SteppedAtRest EXCEPT ![workerBodies[u]] = BodyRecord(IdentityMatrix, 0, 0, f)] :
            u \in DOMAIN workerBodies, f \in CollisionFields}

\* Collision read-back: the worker reports collisions in any of the fields above.
NextCollide ==
  \/ nextBodyUuid < MaxSyncBodies /\ AddBody(DefaultObject, Options(""))
  \/ OnReady
  \/ OnBodyReady
  \/ OnTransferData
  \/ Tick
  \/ WorkerInit
  \/ \E slot \in Slots : WorkerAddBody(slot)
  \/ WorkerTakesBuffer
  \/ \E written \in SteppedColliding : WorkerStep(written)

SpecCollide == Init /\ [][NextCollide]_vars

\* Fields of a worker that keeps to the record layout: a body's field names
\* the slot of another body the worker holds, then -1 to the end.
SteppedTouching ==
  {SteppedAtRest}
    \cup {[SteppedAtRest EXCEPT ![workerBodies[p[1]]] =
             BodyRecord(IdentityMatrix, 0, 0, Field(<<workerBodies[p[2]]>>))] :
            p \in {q \in (DOMAIN workerBodies) \X (DOMAIN workerBodies) : q[1] # q[2]}}

\* Collision read-back while bodies are removed.
NextStale ==
  \/ AddBody(DefaultObject, Options(""))
  \/ \E uuid \in 0 .. (nextBodyUuid - 1) : RemoveBody(uuid)
  \/ OnReady
  \/ OnBodyReady
  \/ OnTransferData
  \/ Tick
  \/ WorkerInit
  \/ \E slot \in Slots : WorkerAddBody(slot)
  \/ WorkerRemoveBody
  \/ WorkerTakesBuffer
  \/ \E written \in SteppedTouching : WorkerStep(written)

SpecStale == Init /\ [][NextStale]_vars

\* Bodies and their shapes: shapes are added to and removed from the body
\* added last, and the worker gives a new body the lowest free slot.
LastBody == nextBodyUuid - 1
LowestFreeSlot == {s \in FreeSlots : \A t \in FreeSlots : s <= t}
RemovesLeft == removeCalls + removeShapesCalls < MaxHandleRemoves

NextShapes ==
  \/ AddBody(DefaultObject, Options(""))
  \/ \E uuid \in 0 .. (nextBodyUuid - 1) : RemovesLeft /\ RemoveBody(uuid)
  \/ nextBodyUuid > 0 /\ AddShapes(LastBody)
  \/ \E shapesUuid \in 0 .. (nextShapeUuid - 1) :
       nextBodyUuid > 0 /\ RemovesLeft /\ RemoveShapes(LastBody, shapesUuid)
  \/ OnReady
  \/ OnBodyReady
  \/ OnShapesReady
  \/ WorkerInit
  \/ \E slot \in LowestFreeSlot : WorkerAddBody(slot)
  \/ WorkerRemoveBody
  \/ WorkerAddShapes
  \/ WorkerRemoveShapes

SpecShapes == Init /\ [][NextShapes]_vars

\* ------------------------------------------------- properties

Bound == DOMAIN uuidToIndex
BodyReadySeen == {p[1] : p \in bodyReadyReceived}
Pending(h) == h < nextBodyUuid /\ h \notin BodyReadySeen
BufferMessages(queue) ==
  Len(SelectSeq(queue, LAMBDA m : m.type \in {"INIT", "TRANSFER_DATA"}))

\* C1: the registry is a bijection: every handle of bodyUuids round-trips
\* through uuidToIndex and indexToUuid, and no two handles share a slot.
C1_RegistryIsBijection ==
  /\ \A h \in Range(bodyUuids) :
       h \in DOMAIN uuidToIndex /\ Get(indexToUuid, uuidToIndex[h]) = h
  /\ \A h1, h2 \in DOMAIN uuidToIndex : h1 # h2 => uuidToIndex[h1] # uuidToIndex[h2]

\* C2: while the transfer buffer is away (sent with INIT or TRANSFER_DATA and
\* not received back), a tick neither processes the buffer nor sends another
\* TRANSFER_DATA; the local array is attached exactly while the control
\* context holds the buffer, and at most one message carries the buffer.
C2_OwnershipAlternates ==
  /\ attached <=> bufferAt = "control"
  /\ BufferMessages(outbox) = (IF bufferAt = "toWorker" THEN 1 ELSE 0)
  /\ BufferMessages(inbox) = (IF bufferAt = "toControl" THEN 1 ELSE 0)
  /\ (lastTick.ran /\ lastTick.bufferWasAt # "control") =>
       (~lastTick.processed /\ ~lastTick.sent /\ lastTick.uuids = <<>>)

\* C2 witness: a tick ran with bodies bound while the buffer was away.
C2_Witness ==
  /\ lastTick.ran
  /\ lastTick.bufferWasAt \in {"toWorker", "worker", "toControl"}
  /\ bodyUuids # <<>>

\* C3: a BODY_READY that arrives for a handle removeBody was already called
\* with binds nothing: the handle is in none of bodyUuids, uuidToIndex and
\* indexToUuid afterwards.
C3_LateBodyReadyBindsNothing ==
  [][\A h \in Handles :
       (/\ inbox # <<>>
        /\ Head(inbox).type = "BODY_READY"
        /\ Head(inbox).uuid = h
        /\ h \in removed
        /\ OnBodyReady)
       => (/\ h \notin Range(bodyUuids')
           /\ h \notin DOMAIN uuidToIndex'
           /\ h \notin Range(indexToUuid'))]_vars

C5_PendingUntilBodyReady ==
  /\ \A h \in Handles : Pending(h) => h \notin Range(bodyUuids) /\ h \notin Bound
  /\ \A i \in DOMAIN lastTick.uuids : ~Pending(lastTick.uuids[i])
  /\ \A h \in Bound : <<h, uuidToIndex[h]>> \in bodyReadyReceived

\* C5 witness: handle 0 is bound to slot 1 and was processed by the tick,
\* while handle 1 is still pending with its BODY_READY for slot 0 in flight.
C5_Witness ==
  /\ lastTick.ran /\ lastTick.uuids = <<0>>
  /\ 0 \in Bound /\ uuidToIndex[0] = 1
  /\ Pending(1)
  /\ \E i \in DOMAIN inbox : inbox[i] = BodyReadyMsg(1, 0)

\* What removeBody must leave alone for another handle g.
EntryKept(g) ==
  /\ Get(uuidToIndex', g) = Get(uuidToIndex, g)
  /\ \A s \in Slots : Get(indexToUuid, s) = g => Get(indexToUuid', s) = g
  /\ (g \in Range(bodyUuids)) = (g \in Range(bodyUuids'))
  /\ (g \in DOMAIN bodyOptions) = (g \in DOMAIN bodyOptions')
  /\ (g \in DOMAIN object3Ds) = (g \in DOMAIN object3Ds')
  /\ (g \in DOMAIN collisions) = (g \in DOMAIN collisions')

\* C6: a second removeBody(h) leaves no mapping or body entry for h and does
\* not change the binding or body entry of any other handle.
C6_SecondRemoveIsSafe ==
  [][\A h \in Handles :
       (h \in removed /\ RemoveBody(h))
       => (/\ h \notin Range(bodyUuids')
           /\ h \notin DOMAIN uuidToIndex'
           /\ h \notin Range(indexToUuid')
           /\ h \notin DOMAIN bodyOptions'
           /\ \A g \in Handles \ {h} : EntryKept(g))]_vars

\* C7: a tick that runs while the control context holds the buffer completes
\* and hands the buffer back with one TRANSFER_DATA.
C7_TickHandsBufferBack ==
  (lastTick.ran /\ lastTick.bufferWasAt = "control") =>
    (lastTick.sent /\ ~lastTick.threw /\ bufferAt = "toWorker")

\* C8: without SharedArrayBuffer debug is never enabled, no SET_DEBUG is sent
\* and nothing is allocated; a tick downgrades the request, does not throw
\* and synchronises every bound body and hands the buffer back as usual.
C8_DebugDowngraded ==
  ~hasSharedArrayBuffer =>
    /\ ~debugEnabled
    /\ debugMessages = <<>>
    /\ ~debugMesh /\ ~debugMeshInScene /\ debugAllocations = 0
    /\ lastTick.ran =>
         /\ ~debugRequested
         /\ ~lastTick.threw
         /\ lastTick.bufferWasAt = "control" =>
              (lastTick.sent /\ lastTick.uuids = bodyUuids)

\* C8 witness: a tick that found debug requested, without SharedArrayBuffer,
\* synchronised a body and handed the buffer back.
C8_Witness ==
  /\ ~hasSharedArrayBuffer
  /\ lastTick.ran /\ lastTick.debugWasRequested
  /\ lastTick.sent /\ lastTick.uuids # <<>>

\* C9: a BODY_READY for a handle that is already bound changes none of
\* bodyUuids, uuidToIndex and indexToUuid.
C9_DuplicateBodyReadyIgnored ==
  [][(/\ inbox # <<>>
      /\ Head(inbox).type = "BODY_READY"
      /\ Head(inbox).uuid \in Bound
      /\ OnBodyReady)
     => (/\ bodyUuids' = bodyUuids
         /\ uuidToIndex' = uuidToIndex
         /\ indexToUuid' = indexToUuid)]_vars

\* C10 (as claimed): the tick sets the local position and orientation of a
\* kinematic or static body from the slot's matrix through the inverse of
\* the parent's world matrix; with an identity parent the local transform
\* equals the slot's matrix.
C10_ExternallyDrivenPoseFromBuffer ==
  [][Tick =>
       \A i \in DOMAIN lastTick'.uuids :
         LET uuid == lastTick'.uuids[i]
             before == object3Ds[uuid]
             after == object3Ds'[uuid]
             matrix == buffer[uuidToIndex[uuid]].matrix
             d == Decompose(MultiplyMatrices(GetInverse(before.parentMatrixWorld), matrix))
         IN  TypeOf(bodyOptions[uuid]) \in {"kinematic", "static"} =>
               /\ after.position = d.position
               /\ after.quaternion = d.quaternion
               /\ before.parentMatrixWorld = IdentityMatrix =>
                    Compose(after.position, after.quaternion, after.scale) = matrix]_vars

\* C10 (amended): for each body the tick's loop processes, a dynamic body
\* (or one without a type) gets its local position and orientation from the
\* slot's matrix through the inverse of the parent's world matrix, its scale
\* kept; with an identity parent they are the position and orientation of the
\* slot's matrix.  A kinematic or static body keeps its local pose.
C10_DynamicPoseFromBuffer ==
  [][Tick =>
       \A i \in DOMAIN lastTick'.uuids :
         LET uuid == lastTick'.uuids[i]
             before == object3Ds[uuid]
             after == object3Ds'[uuid]
             matrix == buffer[uuidToIndex[uuid]].matrix
             d == Decompose(MultiplyMatrices(GetInverse(before.parentMatrixWorld), matrix))
         IN  /\ after.scale = before.scale
             /\ after.parentMatrixWorld = before.parentMatrixWorld
             /\ IF TypeOf(bodyOptions[uuid]) = "dynamic"
                  THEN /\ after.position = d.position
                       /\ after.quaternion = d.quaternion
                       /\ before.parentMatrixWorld = IdentityMatrix =>
                            /\ after.position = matrix.t
                            /\ after.quaternion = Decompose(matrix).quaternion
                  ELSE /\ after.position = before.position
                       /\ after.quaternion = before.quaternion]_vars

\* C10 witness: the tick has just processed a dynamic body under an identity
\* parent, which now has the position and orientation of the matrix the
\* simulation wrote to its slot.
C10_Witness ==
  /\ lastTick.ran /\ lastTick.sent
  /\ \E u \in Range(lastTick.uuids) :
       /\ TypeOf(bodyOptions[u]) = "dynamic"
       /\ object3Ds[u].parentMatrixWorld = IdentityMatrix
       /\ object3Ds[u].position = 1
       /\ object3Ds[u].quaternion = 4
       /\ buffer[uuidToIndex[u]].matrix = Matrix(4, 1)

\* bodyInitialized(uuid): !!this.uuidToIndex[uuid]; undefined and 0 are falsy
BodyInitialized(uuid) == Get(uuidToIndex, uuid) \notin {Undefined, 0}

\* C18: in every reachable state each handle in bodyUuids has an entry in
\* bodyOptions, in object3Ds and in collisions, whatever the interleaving of
\* addBody, removeBody and BODY_READY messages (a BODY_READY for a handle
\* already removed included).
C18_ListedBodiesHaveEntries ==
  \A h \in Range(bodyUuids) :
    /\ h \in DOMAIN bodyOptions
    /\ h \in DOMAIN object3Ds
    /\ h \in DOMAIN collisions

\* C19: bodyInitialized(h) is true exactly when handle h is bound to a slot,
\* for every handle and every slot, slot 0 included.
C19_InitializedIffBound ==
  \A h \in Handles : BodyInitialized(h) <=> h \in Bound

\* C17: with shared-memory support, across any sequence of setDebug calls and
\* ticks the debug buffer is allocated at most once, every SET_DEBUG enable
\* message carries that one buffer, and the SET_DEBUG messages alternate
\* enable, disable, enable, ... starting with an enable.
C17_DebugBufferReusedAndAlternating ==
  hasSharedArrayBuffer =>
    /\ debugAllocations <= 1
    /\ \A i \in 1 .. Len(debugMessages) :
         /\ debugMessages[i].enable = (i % 2 = 1)
         /\ debugMessages[i].enable => debugMessages[i].buffer = 1

\* C17 witness: debug rendering was enabled, disabled and enabled again.
C17_Witness ==
  /\ hasSharedArrayBuffer
  /\ debugAllocations = 1
  /\ Len(debugMessages) >= 3
  /\ debugMessages[3] = [enable |-> TRUE, buffer |-> 1]

\* C16: the READY handler initialises every queued alive body helper before
\* any queued shape helper, whatever order the helpers were registered in.
C16_BodyHelpersFlushedFirst ==
  [][ (~ready /\ ready') =>
        /\ \A h \in Range(bodyHelpers) :
             bodyHelperAlive[h] => <<"body", h>> \in Range(flushed')
        /\ \A h \in Range(shapeHelpers) :
             shapeHelperAlive[h] => <<"shape", h>> \in Range(flushed')
        /\ \A i, j \in DOMAIN flushed' :
             (flushed'[i][1] = "body" /\ flushed'[j][1] = "shape") => i < j
    ]_vars

\* C16 witness: READY flushed two body helpers and a shape helper.
C16_Witness ==
  /\ ready
  /\ Len(flushed) >= 3
  /\ \E i, j \in DOMAIN flushed : flushed[i][1] = "body" /\ flushed[j][1] = "shape"

\* C14: a tick that processes the buffer and hands it back leaves in the slot
\* of every bound body, of any kind, the object's recomputed world transform;
\* and a tick writes no other word: the velocity and collision words of every
\* slot, and every word of a slot with no bound body, are unchanged.
C14_TickWritesOnlyTransforms ==
  [][ lastTick'.ran =>
        /\ lastTick'.sent =>
             \A h \in Bound :
               buffer'[uuidToIndex[h]].matrix = MatrixWorld(object3Ds'[h])
        /\ \A slot \in Slots :
             /\ buffer'[slot].linearVelocity = buffer[slot].linearVelocity
             /\ buffer'[slot].angularVelocity = buffer[slot].angularVelocity
             /\ buffer'[slot].collisions = buffer[slot].collisions
             /\ slot \notin Range(uuidToIndex) => buffer'[slot] = buffer[slot]
    ]_vars

\* C14 witness: a tick has handed back the buffer after writing the world
\* transform of a static body over the pose the worker had left in its slot,
\* next to the velocity words the worker wrote.
C14_Witness ==
  /\ lastTick.ran /\ lastTick.sent
  /\ \E h \in Bound :
       /\ TypeOf(bodyOptions[h]) = "static"
       /\ object3Ds[h] = ChildObject
       /\ buffer[uuidToIndex[h]].matrix = MatrixWorld(ChildObject)
       /\ buffer[uuidToIndex[h]].linearVelocity = 1
       /\ buffer[uuidToIndex[h]].angularVelocity = 2
       /\ \E slot \in Slots : slot \notin Range(uuidToIndex)

\* The words of a collision field that precede its first -1.
BeforeFirstSentinel(field) ==
  LET stops == {j \in DOMAIN field : field[j] = NoCollision}
  IN  IF stops = {} THEN field
      ELSE SubSeq(field, 1, (CHOOSE j \in stops : \A k \in stops : j <= k) - 1)

\* The words of a collision field that are not -1, in order.
NonSentinel(field) == SelectSeq(field, LAMBDA c : c # NoCollision)

HandlesOf(words) == [k \in 1 .. Len(words) |-> Get(indexToUuid, words[k])]

C12_StaleSlotsSkipped ==
  lastTick.ran =>
    \A h \in DOMAIN collisions :
      \A k \in DOMAIN collisions[h] :
        collisions[h][k] # Undefined /\ collisions[h][k] \in Bound

\* The run of C12: a body's field names the slot of a body the worker held
\* when it stepped and which removeBody has unbound since.
C12_StaleEntryRead ==
  /\ lastTick.ran /\ lastTick.sent
  /\ \E h \in Bound : \E g \in removed :
       /\ g \notin Bound
       /\ h # g
       /\ buffer[uuidToIndex[h]].collisions[1] \in Slots \ Range(uuidToIndex)
       /\ collisions[h] = <<Undefined>>

StrictlyIncreasing(returned) ==
  \A i, j \in DOMAIN returned : i < j => returned[i] < returned[j]

\* C13: handles are never reused: every addBody call returns a value greater
\* than every value an earlier addBody call returned, and likewise addShapes,
\* whatever removals and inbound messages happen in between.
C13_HandlesNeverReused ==
  /\ StrictlyIncreasing(addBodyReturned)
  /\ StrictlyIncreasing(addShapesReturned)

\* C13 witness: two bodies and two shape sets were added, a body or a shape set
\* was removed, and BODY_READY and SHAPES_READY messages were handled.
C13_Witness ==
  /\ Len(addBodyReturned) >= 2
  /\ Len(addShapesReturned) >= 2
  /\ removeCalls + removeShapesCalls > 0
  /\ bodyReadyReceived # {}
  /\ \E b \in DOMAIN shapes : Len(shapes[b]) > Len(addShapesReturned)

Without(list, s) == SelectSeq(list, LAMBDA x : x # s)

\* C15: after removeShapes(b, s), for a shape handle s that addShapes(b, ...)
\* returned, s is no longer in body b's shape list and the other shape
\* handles of b keep their relative order.
C15_RemoveShapesRemoves ==
  [][ removeShapesCalls' = removeShapesCalls + 1 =>
        LET b == outbox'[Len(outbox')].uuid
            s == outbox'[Len(outbox')].index
        IN  (b \in DOMAIN shapes /\ s \in Range(shapes[b])) =>
              /\ s \notin Range(shapes'[b])
              /\ Without(shapes'[b], s) = Without(shapes[b], s)
    ]_vars

\* C20: each shape handle appears at most once in its body's shape list.
C20_ShapeListedOnce ==
  \A b \in DOMAIN shapes :
    \A i, j \in DOMAIN shapes[b] : shapes[b][i] = shapes[b][j] => i = j
====
